---------------------------- MODULE Spec2Model ----------------------------
(***************************************************************************)
(* Label verification engine of backend/app.py.                            *)
(*                                                                         *)
(* A Python str is a sequence of one-character strings.  The characters    *)
(* are those of Latin-1 (code points 0 to 255), the ones a string of this  *)
(* language can hold: str.lower(), str.isspace(), regex \s and \d are what  *)
(* Python makes of them on that range.                                     *)
(*                                                                         *)
(* A Python float is an IEEE 754 double, held exactly: float(), the        *)
(* subtraction, the product and the comparisons round as the hardware      *)
(* does, on natural numbers of any size kept as sequences of limbs.        *)
(***************************************************************************)
EXTENDS Integers, Sequences, FiniteSets, TLC

VARIABLES
    pc,              \* position in the handler / in the function call
    image,           \* what request.files holds for 'image'
    form_data,       \* request.form.to_dict(): field name -> str
    ocr_result,      \* what pytesseract.image_to_string returns for the image
    exception,       \* str(e) of the exception Image.open or pytesseract raises
    extracted_text,  \* pytesseract's output (the label text argument)
    results,         \* the results object under construction
    response,        \* the (body, status) pair returned by verify_label
    ret              \* return value of the function under test

vars == <<pc, image, form_data, ocr_result, exception, extracted_text, results,
         response, ret>>

-----------------------------------------------------------------------------
(* Python values *)

\* Python's None, as a value distinct from every str.
None == <<"<None>">>

\* Truthiness of an optional str: `if not text`.
Truthy(v) == v # None /\ v # <<>>

\* The one member of a singleton set.  The({e : v \in {x}}) is e with v bound
\* to the value of x, as Python binds an argument or a local once.
The(S) == CHOOSE r \in S : TRUE

\* min(S) of a non-empty set of integers
Min(S) == CHOOSE j \in S : \A k \in S : j <= k

\* dict.get(key, default)
Get(d, k, default) == IF k \in DOMAIN d THEN d[k] ELSE default

\* The cased letters of Latin-1: A-Z, and \xc0-\xde without the sign \xd7
UpperChars ==
    <<"A","B","C","D","E","F","G","H","I","J","K","L","M","N","O","P","Q","R","S","T","U","V","W","X","Y","Z">>
      \o <<"À","Á","Â","Ã","Ä","Å","Æ","Ç","È","É","Ê","Ë","Ì","Í","Î","Ï">>
      \o <<"Ð","Ñ","Ò","Ó","Ô","Õ","Ö","Ø","Ù","Ú","Û","Ü","Ý","Þ">>
LowerChars ==
    <<"a","b","c","d","e","f","g","h","i","j","k","l","m","n","o","p","q","r","s","t","u","v","w","x","y","z">>
      \o <<"à","á","â","ã","ä","å","æ","ç","è","é","ê","ë","ì","í","î","ï">>
      \o <<"ð","ñ","ò","ó","ô","õ","ö","ø","ù","ú","û","ü","ý","þ">>
DigitChars == <<"0","1","2","3","4","5","6","7","8","9">>

\* str.isspace() / regex \s: \t \n \x0b \f \r, \x1c to \x1f, space, \x85, \xa0
IsSpace(c) ==
    c \in {" ", "\t", "\n", "\r", "\f", "", "", "", "",
           "", "", " "}

\* regex \d
IsDigit(c) == \E i \in 1..10 : DigitChars[i] = c

DigitVal(c) == (CHOOSE i \in 1..10 : DigitChars[i] = c) - 1

LowerChar(c) ==
    IF \E i \in 1..Len(UpperChars) : UpperChars[i] = c
    THEN LowerChars[CHOOSE i \in 1..Len(UpperChars) : UpperChars[i] = c]
    ELSE c

\* str.lower()
Lower(s) == [i \in 1..Len(s) |-> LowerChar(s[i])]

\* First index >= i of s holding a non-whitespace character (Len(s)+1 if none).
SkipSpace(s, i) == Min({j \in i..(Len(s) + 1) : j > Len(s) \/ ~IsSpace(s[j])})

\* max(S) of a non-empty set of integers
Max(S) == CHOOSE j \in S : \A k \in S : j >= k

\* Last index <= j of s holding a non-whitespace character (0 if none).
SkipSpaceBack(s, j) == Max({k \in 0..j : k = 0 \/ ~IsSpace(s[k])})

\* str.strip()
Strip(s) ==
    The({ IF a > b THEN <<>> ELSE SubSeq(s, a, b)
          : a \in {SkipSpace(s, 1)}, b \in {SkipSpaceBack(s, Len(s))} })

\* First index >= i of s holding a whitespace character (Len(s)+1 if none).
SkipWord(s, i) == Min({j \in i..(Len(s) + 1) : j > Len(s) \/ IsSpace(s[j])})

\* The indices of s in increasing order
Indices(s) == [i \in 1..Len(s) |-> i]

\* re.sub(r'\s+', ' ', s): every maximal whitespace run becomes one space,
\* that is, its first character becomes a space and its other characters go;
\* the characters outside the runs are copied.
Collapse(s) ==
    The({ [k \in 1..Len(kept) |-> IF IsSpace(s[kept[k]]) THEN " " ELSE s[kept[k]]]
          : kept \in {SelectSeq(Indices(s),
                                LAMBDA i : ~IsSpace(s[i]) \/ i = 1 \/ ~IsSpace(s[i - 1]))} })

\* `a in b` for two strs.
Contains(b, a) ==
    \E hay \in {b}, needle \in {a} :
        \E i \in 0..(Len(hay) - Len(needle)) :
            SubSeq(hay, i + 1, i + Len(needle)) = needle

\* s[i:i+len(w)] == w
StartsAt(s, i, w) ==
    /\ i + Len(w) - 1 <= Len(s)
    /\ SubSeq(s, i, i + Len(w) - 1) = w

\* str.split() of a str: the maximal runs of non-whitespace characters, each
\* from its first character to the one before the next whitespace.
Split(s) ==
    The({ [k \in 1..Len(starts) |-> SubSeq(s, starts[k], SkipWord(s, starts[k]) - 1)]
          : starts \in {SelectSeq(Indices(s),
                                  LAMBDA i : ~IsSpace(s[i]) /\ (i = 1 \/ IsSpace(s[i - 1])))} })

-----------------------------------------------------------------------------
(* normalize_text *)

\* Variant that skips .strip().
normalize_text_nostrip(text) ==
    IF ~Truthy(text) THEN <<>>
    ELSE The({ Collapse(lowered) : lowered \in {Lower(text)} })

normalize_text(text) ==
    IF ~Truthy(text) THEN <<>>
    ELSE The({ Collapse(stripped)
               : stripped \in { The({ Strip(lowered) : lowered \in {Lower(text)} }) } })

-----------------------------------------------------------------------------
(* Natural numbers of any size: little-endian sequences of limbs below      *)
(* 2^15 without a high zero limb, so that a limb product fits an integer.   *)

LimbWidth == 15
LimbBase == 2^LimbWidth

BigOf(k) == IF k = 0 THEN <<>> ELSE <<k>>

RECURSIVE BigTrim(_)
BigTrim(a) ==
    IF a # <<>> /\ a[Len(a)] = 0 THEN BigTrim(SubSeq(a, 1, Len(a) - 1)) ELSE a

\* The limbs k.. of a * s + c for 0 < s < LimbBase and 0 <= c < LimbBase,
\* c being the carry into limb k
RECURSIVE MulLimbs(_, _, _, _)
MulLimbs(a, s, c, k) ==
    IF k > Len(a) THEN BigOf(c)
    ELSE <<(a[k] * s + c) % LimbBase>> \o MulLimbs(a, s, (a[k] * s + c) \div LimbBase, k + 1)

\* a * s + c
BigMulAdd(a, s, c) == The({ MulLimbs(v, s, c, 1) : v \in {a} })

\* The remainder that the limbs k.. of a leave when divided by s
RECURSIVE RemAbove(_, _, _)
RemAbove(a, s, k) ==
    IF k > Len(a) THEN 0 ELSE (RemAbove(a, s, k + 1) * LimbBase + a[k]) % s

\* a divided by s, 0 < s <= LimbBase, by long division from the high limb
\* down; the quotient keeps its high zeros
BigDivMod(a, s) ==
    The({ [quot |-> [k \in 1..Len(v) |-> (RemAbove(v, s, k + 1) * LimbBase + v[k]) \div s],
           rem  |-> RemAbove(v, s, 1)]
          : v \in {a} })

At(a, k) == IF k <= Len(a) THEN a[k] ELSE 0

\* The limbs k.. of a + b + c, c being the carry into limb k
RECURSIVE AddLimbs(_, _, _, _)
AddLimbs(a, b, c, k) ==
    IF k > Len(a) /\ k > Len(b) THEN BigOf(c)
    ELSE <<(At(a, k) + At(b, k) + c) % LimbBase>>
           \o AddLimbs(a, b, (At(a, k) + At(b, k) + c) \div LimbBase, k + 1)

\* a + b + c for a carry c in {0, 1}
BigAdd(a, b, c) == The({ AddLimbs(x, y, c, 1) : x \in {a}, y \in {b} })

\* The limbs k.. of a - b - c for a >= b + c, c being the borrow from limb k;
\* high zeros kept
RECURSIVE SubLimbs(_, _, _, _)
SubLimbs(a, b, c, k) ==
    IF k > Len(a) THEN <<>>
    ELSE <<(a[k] - At(b, k) - c + LimbBase) % LimbBase>>
           \o SubLimbs(a, b, IF a[k] - At(b, k) - c < 0 THEN 1 ELSE 0, k + 1)

\* a * b
RECURSIVE BigMul(_, _)
BigMul(a, b) ==
    IF a = <<>> \/ b = <<>> THEN <<>>
    ELSE The({ IF Head(b) = 0 THEN <<0>> \o high
               ELSE BigAdd(BigMulAdd(a, Head(b), 0), <<0>> \o high, 0)
               : high \in {BigMul(a, Tail(b))} })

\* The limbs of a non-negative int
RECURSIVE BigOfInt(_)
BigOfInt(k) == IF k = 0 THEN <<>> ELSE <<k % LimbBase>> \o BigOfInt(k \div LimbBase)

\* a - b for a >= b
BigSub(a, b) == The({ BigTrim(SubLimbs(x, y, 0, 1)) : x \in {a}, y \in {b} })

\* -1, 0 or 1 as a < b, a = b or a > b
BigCmp(a, b) ==
    IF Len(a) # Len(b) THEN (IF Len(a) < Len(b) THEN -1 ELSE 1)
    ELSE IF a = b THEN 0
    ELSE The({ IF a[k] < b[k] THEN -1 ELSE 1
               : k \in {Max({j \in 1..Len(a) : a[j] # b[j]})} })

\* Number of bits of a limb
BitsOfLimb(x) == Min({n \in 0..LimbWidth : x < 2^n})

BigBitLen(a) ==
    IF a = <<>> THEN 0 ELSE LimbWidth * (Len(a) - 1) + BitsOfLimb(a[Len(a)])

\* a * 2^n
BigShl(a, n) ==
    IF a = <<>> THEN <<>>
    ELSE [k \in 1..(n \div LimbWidth) |-> 0] \o BigMulAdd(a, 2^(n % LimbWidth), 0)

\* a \div 2^n, and whether a one bit was shifted out
BigShr(a, n) ==
    The({ [quot   |-> BigTrim(d.quot),
           sticky |-> d.rem # 0 \/ \E k \in 1..Min({n \div LimbWidth, Len(a)}) : a[k] # 0]
          : d \in {BigDivMod(SubSeq(a, n \div LimbWidth + 1, Len(a)), 2^(n % LimbWidth))} })

BigOdd(a) == a # <<>> /\ a[1] % 2 = 1

\* Number of low zero bits of a # 0
BigTrailingZeros(a) ==
    The({ LimbWidth * (k - 1) + Max({n \in 0..LimbWidth : a[k] % 2^n = 0})
          : k \in {Min({j \in 1..Len(a) : a[j] # 0})} })

-----------------------------------------------------------------------------
(* Python floats: IEEE 754 binary64.  A finite float is its sign with an    *)
(* odd mantissa man and an exponent exp, its value being man * 2^exp (zero: *)
(* man = <<>>, exp = 0, the sign kept); cls tells it from inf and nan.      *)

\* Bits of a double's significand
MantissaBits == 53
\* Exponent of the lowest bit of the smallest subnormal
MinExponent == -1074
\* 2^MaxExponent is the first power of two beyond the finite doubles
MaxExponent == 1024

FloatZero(neg) == [cls |-> "finite", neg |-> neg, man |-> <<>>, exp |-> 0]
FloatInf(neg) == [cls |-> "inf", neg |-> neg, man |-> <<>>, exp |-> 0]
FloatNan == [cls |-> "nan", neg |-> FALSE, man |-> <<>>, exp |-> 0]

\* The float of value m * 2^e for a mantissa m of at most MantissaBits bits
\* (after rounding, 2^MantissaBits itself may come in)
Canonical(neg, m, e) ==
    IF m = <<>> THEN FloatZero(neg)
    ELSE IF BigBitLen(m) + e > MaxExponent THEN FloatInf(neg)
    ELSE The({ [cls |-> "finite", neg |-> neg, man |-> BigShr(m, z).quot, exp |-> e + z]
               : z \in {BigTrailingZeros(m)} })

\* q \div 2^t rounded to nearest, ties to even; sticky tells that the value
\* being rounded lies strictly above q.
RoundShift(q, t, sticky) ==
    The({ IF BigOdd(sh.quot) /\ (sh.sticky \/ sticky \/ BigOdd(m))
          THEN BigAdd(m, <<>>, 1)
          ELSE m
          : sh \in {BigShr(q, t - 1)}, m \in {BigShr(q, t).quot} })

\* The double nearest to q * 2^e (or to a value strictly between q * 2^e and
\* (q + 1) * 2^e when sticky), q # 0 or not sticky.
RoundToDouble(neg, q, e, sticky) ==
    IF q = <<>> THEN FloatZero(neg)
    ELSE The({ IF lsb <= e THEN Canonical(neg, q, e)
               ELSE The({ Canonical(neg, m, lsb) : m \in {RoundShift(q, lsb - e, sticky)} })
               : lsb \in {Max({BigBitLen(q) + e - MantissaBits, MinExponent})} })

\* float(k) of a non-negative int
IntFloat(k) == RoundToDouble(FALSE, BigOfInt(k), 0, FALSE)

\* abs(a)
FloatAbs(a) == [a EXCEPT !.neg = FALSE]

\* -a
FloatNeg(a) == IF a.cls = "nan" THEN a ELSE [a EXCEPT !.neg = ~@]

\* a + b on two finite floats
FiniteAdd(a, b) ==
    The({ The({ IF a.neg = b.neg
                THEN RoundToDouble(a.neg, BigAdd(x, y, 0), e, FALSE)
                ELSE The({ IF c = 0 THEN FloatZero(FALSE)
                           ELSE IF c > 0 THEN RoundToDouble(a.neg, BigSub(x, y), e, FALSE)
                           ELSE RoundToDouble(b.neg, BigSub(y, x), e, FALSE)
                           : c \in {BigCmp(x, y)} })
                : x \in {BigShl(a.man, a.exp - e)}, y \in {BigShl(b.man, b.exp - e)} })
          : e \in {Min({a.exp, b.exp})} })

\* a + b
FloatAdd(a, b) ==
    IF a.cls = "nan" \/ b.cls = "nan" THEN FloatNan
    ELSE IF a.cls = "inf" THEN (IF b.cls = "inf" /\ a.neg # b.neg THEN FloatNan ELSE a)
    ELSE IF b.cls = "inf" THEN b
    ELSE FiniteAdd(a, b)

\* a - b
FloatSub(a, b) == FloatAdd(a, FloatNeg(b))

\* k * a for a non-negative int k and a finite a
IntTimesFloat(k, a) ==
    The({ RoundToDouble(a.neg, m, a.exp, FALSE) : m \in {BigTrim(BigMul(a.man, BigOfInt(k)))} })

\* |a| <= |b| on floats that are no nan
MagnitudeLe(a, b) ==
    IF b.cls = "inf" THEN TRUE
    ELSE IF a.cls = "inf" THEN FALSE
    ELSE The({ BigCmp(BigShl(a.man, a.exp - e), BigShl(b.man, b.exp - e)) <= 0
               : e \in {Min({a.exp, b.exp})} })

FloatIsZero(a) == a.cls = "finite" /\ a.man = <<>>

\* a <= b
FloatLe(a, b) ==
    IF a.cls = "nan" \/ b.cls = "nan" THEN FALSE
    ELSE IF FloatIsZero(a) THEN FloatIsZero(b) \/ ~b.neg
    ELSE IF FloatIsZero(b) THEN a.neg
    ELSE IF a.neg # b.neg THEN a.neg
    ELSE IF a.neg THEN MagnitudeLe(b, a)
    ELSE MagnitudeLe(a, b)

\* abs(a - b) <= tol
AbsDiffLe(a, b, tol) ==
    The({ FloatLe(FloatAbs(d), tol) : d \in {FloatSub(a, b)} })

-----------------------------------------------------------------------------
(* float(str) *)

\* The whitespace float() strips from both ends
IsFloatSpace(c) == c \in {" ", "\t", "\n", "\r", "\f", "", "", " "}

\* First index >= i of s that float() does not strip (Len(s)+1 if none).
SkipFloatSpace(s, i) == Min({j \in i..(Len(s) + 1) : j > Len(s) \/ ~IsFloatSpace(s[j])})

\* Last index <= j of s that float() does not strip (0 if none).
SkipFloatSpaceBack(s, j) == Max({k \in 0..j : k = 0 \/ ~IsFloatSpace(s[k])})

FloatStrip(s) == SubSeq(s, SkipFloatSpace(s, 1), SkipFloatSpaceBack(s, Len(s)))

\* A digit part, digit (["_"] digit)*, anchored at i: the index just past it,
\* i itself when s[i] is no digit.  The longest one is the only one that can
\* be followed by what the grammar allows next.
RECURSIVE DigitPartEnd(_, _)
DigitPartEnd(s, i) ==
    IF i > Len(s) \/ ~IsDigit(s[i]) THEN i
    ELSE IF i + 1 <= Len(s) /\ IsDigit(s[i + 1]) THEN DigitPartEnd(s, i + 1)
    ELSE IF i + 2 <= Len(s) /\ s[i + 1] = "_" /\ IsDigit(s[i + 2])
    THEN DigitPartEnd(s, i + 2)
    ELSE i + 1

\* The digits of s[i..j-1], underscores dropped
DigitsOf(s, i, j) == SelectSeq(SubSeq(s, i, j - 1), IsDigit)

RECURSIVE StripZeros(_)
StripZeros(d) == IF d # <<>> /\ Head(d) = "0" THEN StripZeros(Tail(d)) ELSE d

\* The number a digit string denotes
RECURSIVE BigOfDigits(_, _)
BigOfDigits(d, acc) ==
    IF d = <<>> THEN acc
    ELSE The({ BigOfDigits(Tail(d), next) : next \in {BigMulAdd(acc, 10, DigitVal(Head(d)))} })

\* Beyond this many decimal digits every float is inf, below its negative 0.0
ExponentCap == 10000

\* The exponent a digit string denotes, cut at ExponentCap
RECURSIVE SmallOfDigits(_, _)
SmallOfDigits(d, acc) ==
    IF d = <<>> THEN acc
    ELSE The({ SmallOfDigits(Tail(d), next)
               : next \in {Min({ExponentCap, 10 * acc + DigitVal(Head(d))})} })

\* n * 10^k
RECURSIVE BigTimesPow10(_, _)
BigTimesPow10(n, k) ==
    IF k = 0 THEN n
    ELSE The({ BigTimesPow10(next, k - 1) : next \in {BigMulAdd(n, 10, 0)} })

\* n \div 10^k, and whether the division left a remainder
RECURSIVE BigOverPow10(_, _, _)
BigOverPow10(n, k, sticky) ==
    IF k = 0 THEN [quot |-> n, sticky |-> sticky]
    ELSE The({ BigOverPow10(BigTrim(d.quot), k - 1, sticky \/ d.rem # 0)
               : d \in {BigDivMod(n, 10)} })

\* Largest and smallest power of ten that a finite non-zero double can reach
MaxDecimalExponent == 309
MinDecimalExponent == -324

\* Quotient bits kept beyond the mantissa when dividing by a power of ten
GuardBits == 64

\* The double nearest to sig * 10^p10, sig a digit string without leading zero
DecimalToDouble(neg, sig, p10) ==
    IF sig = <<>> THEN FloatZero(neg)
    ELSE IF Len(sig) + p10 > MaxDecimalExponent THEN FloatInf(neg)
    ELSE IF Len(sig) + p10 <= MinDecimalExponent THEN FloatZero(neg)
    ELSE IF p10 >= 0
    THEN The({ RoundToDouble(neg, n, 0, FALSE)
               : n \in {BigTimesPow10(BigOfDigits(sig, <<>>), p10)} })
    ELSE The({ RoundToDouble(neg, d.quot, 4 * p10 - GuardBits, d.sticky)
               : d \in {BigOverPow10(BigShl(BigOfDigits(sig, <<>>), GuardBits - 4 * p10),
                                     -p10, FALSE)} })

FloatError == [ok |-> FALSE, val |-> FloatNan]

\* A float literal without its sign, from index i on:
\* digitpart ["." [digitpart]] [exponent] or "." digitpart [exponent], with
\* exponent = ("e" | "E") [sign] digitpart.
ParseNumber(s, neg, i) ==
    LET a      == DigitPartEnd(s, i)
        dotted == a <= Len(s) /\ s[a] = "."
        b      == IF dotted THEN DigitPartEnd(s, a + 1) ELSE a
        marked == b <= Len(s) /\ s[b] \in {"e", "E"}
        signed == marked /\ b + 1 <= Len(s) /\ s[b + 1] \in {"+", "-"}
        x      == IF signed THEN b + 2 ELSE b + 1
        y      == IF marked THEN DigitPartEnd(s, x) ELSE b
        power  == IF marked THEN SmallOfDigits(DigitsOf(s, x, y), 0) ELSE 0
    IN  IF /\ (IF dotted THEN a > i \/ b > a + 1 ELSE a > i)
           /\ marked => y > x
           /\ y > Len(s)
        THEN The({ [ok |-> TRUE, val |-> DecimalToDouble(neg, sig, p10)]
                   : sig \in {StripZeros(DigitsOf(s, i, a) \o DigitsOf(s, a + 1, b))},
                     p10 \in {(IF signed /\ s[b + 1] = "-" THEN -power ELSE power)
                                - Len(DigitsOf(s, a + 1, b))} })
        ELSE FloatError

\* float(s): [sign] (inf | infinity | nan), in any case, or [sign] number,
\* between whitespace; anything else raises ValueError (ok = FALSE).
ParseStripped(s) ==
    LET i    == IF s # <<>> /\ s[1] \in {"+", "-"} THEN 2 ELSE 1
        neg  == i = 2 /\ s[1] = "-"
        body == Lower(SubSeq(s, i, Len(s)))
    IN  IF body \in {<<"i","n","f">>, <<"i","n","f","i","n","i","t","y">>} THEN [ok |-> TRUE, val |-> FloatInf(neg)]
        ELSE IF body = <<"n","a","n">> THEN [ok |-> TRUE, val |-> FloatNan]
        ELSE ParseNumber(s, neg, i)

ParseFloat(s) == The({ ParseStripped(t) : t \in {FloatStrip(s)} })
-----------------------------------------------------------------------------
(* re.findall over the number-then-unit patterns *)

\* First index >= i of s holding a non-digit (Len(s)+1 if none).
SkipDigits(s, i) == Min({j \in i..(Len(s) + 1) : j > Len(s) \/ ~IsDigit(s[j])})

\* (\d+\.?\d*) anchored at i: the index just past the greedy match, 0 when
\* s[i] is no digit.  Greedy is the only alternative that can succeed here:
\* giving back a digit or the dot leaves a digit or "." as the next character,
\* and every pattern continues with \s* and then "%" or a unit letter.
NumberEnd(s, i) ==
    The({ IF a = i THEN 0
          ELSE IF a <= Len(s) /\ s[a] = "." THEN SkipDigits(s, a + 1)
          ELSE a
          : a \in {SkipDigits(s, i)} })

\* The unit alternatives of the four patterns, anchored at w: the index just
\* past the match, 0 when there is none.
UnitEnd(s, pattern, w) ==
    CASE pattern = "percent" ->
           IF StartsAt(s, w, <<"%">>) THEN w + 1 ELSE 0
      [] pattern = "ml" ->
           IF StartsAt(s, w, <<"m","l">>) \/ StartsAt(s, w, <<"m","L">>) THEN w + 2 ELSE 0
      [] pattern = "floz" ->
           IF StartsAt(s, w, <<"f","l">>) /\ StartsAt(s, SkipSpace(s, w + 2), <<"o","z">>)
           THEN SkipSpace(s, w + 2) + 2
           ELSE IF StartsAt(s, w, <<"o","z">>) THEN w + 2 ELSE 0
      [] pattern = "l" ->
           IF StartsAt(s, w, <<"l">>) \/ StartsAt(s, w, <<"L">>) THEN w + 1 ELSE 0

\* One match attempt at i: (\d+\.?\d*)\s*(unit)
NoMatch(i) == [ok |-> FALSE, start |-> i, end |-> i, number |-> <<>>, unit |-> <<>>]

MatchUnit(s, pattern, i, ne, w) ==
    The({ IF ue = 0 THEN NoMatch(i)
          ELSE [ok |-> TRUE, start |-> i, end |-> ue,
                number |-> SubSeq(s, i, ne - 1), unit |-> SubSeq(s, w, ue - 1)]
          : ue \in {UnitEnd(s, pattern, w)} })

MatchAt(s, pattern, i) ==
    The({ IF ne = 0 THEN NoMatch(i)
          ELSE The({ MatchUnit(s, pattern, i, ne, w) : w \in {SkipSpace(s, ne)} })
          : ne \in {NumberEnd(s, i)} })

\* re.findall: the leftmost match at or after i, then on from its end; the
\* matches do not overlap.
RECURSIVE FindAll(_, _, _)
FindAll(s, pattern, i) ==
    The({ IF starts = {} THEN <<>>
          ELSE The({ <<m>> \o FindAll(s, pattern, m.end)
                     : m \in {MatchAt(s, pattern, Min(starts))} })
          : starts \in {{j \in i..Len(s) : MatchAt(s, pattern, j).ok}} })

\* re.findall(pattern, text.lower())
FindAllLower(text, pattern) ==
    The({ FindAll(lowered, pattern, 1) : lowered \in {Lower(text)} })

-----------------------------------------------------------------------------
(* find_percentage *)

PercentMin == 0
PercentMax == 100

\* `0 <= val <= 100`
InPercentRange(val) ==
    FloatLe(IntFloat(PercentMin), val) /\ FloatLe(val, IntFloat(PercentMax))

\* float(match) of every match; a ValueError is ok = FALSE
FloatsOf(matches) == [k \in 1..Len(matches) |-> ParseFloat(matches[k].number)]

\* The loop of find_percentage: the floats that parse and pass the range
\* test, in the order of the matches.
PercentLoop(matches) ==
    The({ [k \in 1..Len(kept) |-> kept[k].val]
          : kept \in {SelectSeq(FloatsOf(matches),
                                LAMBDA p : p.ok /\ InPercentRange(p.val))} })

\* Variant of the loop without the range test.
PercentLoopNoRange(matches) ==
    The({ [k \in 1..Len(kept) |-> kept[k].val]
          : kept \in {SelectSeq(FloatsOf(matches), LAMBDA p : p.ok)} })

find_percentage_norange(text) ==
    The({ PercentLoopNoRange(matches) : matches \in {FindAllLower(text, "percent")} })

find_percentage(text) ==
    The({ PercentLoop(matches) : matches \in {FindAllLower(text, "percent")} })

-----
(* find_volume *)

VolumePatterns == <<"ml", "floz", "l">>

\* f"{match[0]} {match[1]}".strip()
FormatVolume(m) == Strip(m.number \o <<" ">> \o m.unit)

VolumesOf(text, pattern) ==
    The({ [k \in 1..Len(matches) |-> FormatVolume(matches[k])]
          : matches \in {FindAllLower(text, pattern)} })

find_volume(text) ==
    VolumesOf(text, VolumePatterns[1]) \o VolumesOf(text, VolumePatterns[2])
        \o VolumesOf(text, VolumePatterns[3])

-----------------------------------------------------------------------------
(* Field matchers.  Each returns the pair (matched, message); a message is   *)
(* its f-string template with the interpolated values beside it.             *)

Result(matched, fmt, args) ==
    [matched |-> matched, message |-> [fmt |-> fmt, args |-> args]]

\* 0.7 in `found >= len(form_words) * 0.7`
WordThreshold == ParseFloat(<<"0",".","7">>).val

\* sum(1 for word in form_words if word in label_lower)
WordsFound(form_words, label_lower) ==
    Cardinality({k \in 1..Len(form_words) : Contains(label_lower, form_words[k])})

\* Variant that is content with one word fewer.
EnoughWordsFloor(found, count) ==
    FloatLe(IntTimesFloat(count, WordThreshold), IntFloat(found + 1))

\* `found >= len(form_words) * 0.7`
EnoughWords(found, count) ==
    FloatLe(IntTimesFloat(count, WordThreshold), IntFloat(found))

\* lines 52-63, on the two normalized strings
MatchNormalized(label_lower, form_lower, field_name) ==
    IF Contains(label_lower, form_lower)
    THEN Result(TRUE, "{} found on label", <<field_name>>)
    ELSE IF \E form_words \in {Split(form_lower)} :
               /\ Len(form_words) > 1
               /\ EnoughWords(WordsFound(form_words, label_lower), Len(form_words))
    THEN Result(TRUE, "{} partially matched", <<field_name>>)
    ELSE Result(FALSE, "{} not found on label", <<field_name>>)

check_match(label_text, form_value, field_name) ==
    IF ~Truthy(form_value)
    THEN Result(FALSE, "{} not provided in form", <<field_name>>)
    ELSE The({ MatchNormalized(label_lower, form_lower, field_name)
               : label_lower \in {normalize_text(label_text)},
                 form_lower \in {normalize_text(form_value)} })

\* 0.5 in `abs(label_val - form_value) <= 0.5`
Tolerance == ParseFloat(<<"0",".","5">>).val

\* re.sub(r'[%\s]', '', form_abv)
StripPercentAndSpace(s) == SelectSeq(s, LAMBDA c : c # "%" /\ ~IsSpace(c))

\* The for loop of check_alcohol: the label values within tolerance.
WithinTolerance(label_percentages, form_value) ==
    {k \in 1..Len(label_percentages) :
        AbsDiffLe(label_percentages[k], form_value, Tolerance)}

\* lines 75-84: the first label value within tolerance wins
ComparePercentages(label_percentages, form_value) ==
    IF label_percentages = <<>>
    THEN Result(FALSE, "Alcohol content not found on label (expected {}%)", <<form_value>>)
    ELSE The({ IF hits # {}
               THEN Result(TRUE, "Alcohol content matches: {}%",
                           <<label_percentages[Min(hits)]>>)
               ELSE Result(FALSE, "Alcohol content mismatch: found {}%, expected {}%",
                           <<label_percentages[1], form_value>>)
               : hits \in {WithinTolerance(label_percentages, form_value)} })

check_alcohol(label_text, form_abv) ==
    IF ~Truthy(form_abv)
    THEN Result(FALSE, "Alcohol content not provided", <<>>)
    ELSE The({ IF ~parsed.ok
               THEN Result(FALSE, "Invalid alcohol content: {}", <<form_abv>>)
               ELSE The({ ComparePercentages(label_percentages, parsed.val)
                          : label_percentages \in {find_percentage(label_text)} })
               : parsed \in {ParseFloat(StripPercentAndSpace(form_abv))} })

\* `form_lower in normalize_text(label_vol) or normalize_text(label_vol) in form_lower`
VolumeHits(label_volumes, form_lower) ==
    {k \in 1..Len(label_volumes) :
        \E label_vol \in {normalize_text(label_volumes[k])} :
            \/ Contains(label_vol, form_lower)
            \/ Contains(form_lower, label_vol)}

\* lines 91-100: the first label volume that matches wins
CompareVolumes(label_volumes, form_volume) ==
    IF label_volumes = <<>>
    THEN Result(FALSE, "Net contents not found on label (expected {})", <<form_volume>>)
    ELSE The({ IF hits # {}
               THEN Result(TRUE, "Net contents matches: {}", <<label_volumes[Min(hits)]>>)
               ELSE Result(FALSE, "Net contents mismatch: found {}, expected {}",
                           <<label_volumes[1], form_volume>>)
               : hits \in { The({ VolumeHits(label_volumes, form_lower)
                                  : form_lower \in {normalize_text(form_volume)} }) } })

check_volume(label_text, form_volume) ==
    IF ~Truthy(form_volume)
    THEN Result(TRUE, "Net contents not required", <<>>)
    ELSE The({ CompareVolumes(label_volumes, form_volume)
               : label_volumes \in {find_volume(label_text)} })

WarningPhrase == <<"g","o","v","e","r","n","m","e","n","t"," ","w","a","r","n","i","n","g">>

\* phrases = ["pregnant", "driving", "operating machinery", "health problems"]
KeyPhrases == << <<"p","r","e","g","n","a","n","t">>, <<"d","r","i","v","i","n","g">>, <<"o","p","e","r","a","t","i","n","g"," ","m","a","c","h","i","n","e","r","y">>,
                 <<"h","e","a","l","t","h"," ","p","r","o","b","l","e","m","s">> >>

\* 2 in `len(found) >= 2`
MinKeyPhrases == 2

\* found = [p for p in phrases if p in text_lower]
PhrasesFound(text_lower) ==
    SelectSeq(KeyPhrases, LAMBDA p : Contains(text_lower, p))

\* lines 104-113 on the normalized text, one key phrase being enough
WarningInOnePhrase(text_lower) ==
    IF Contains(text_lower, WarningPhrase)
    THEN Result(TRUE, "Government warning found on label", <<>>)
    ELSE IF Len(PhrasesFound(text_lower)) >= MinKeyPhrases - 1
    THEN Result(TRUE, "Government warning partially found", <<>>)
    ELSE Result(FALSE, "Government warning not found on label", <<>>)

\* Variant that accepts a single key phrase.
check_warning_onephrase(label_text) ==
    The({ WarningInOnePhrase(text_lower) : text_lower \in {normalize_text(label_text)} })

\* lines 104-113 on the normalized text
WarningIn(text_lower) ==
    IF Contains(text_lower, WarningPhrase)
    THEN Result(TRUE, "Government warning found on label", <<>>)
    ELSE IF Len(PhrasesFound(text_lower)) >= MinKeyPhrases
    THEN Result(TRUE, "Government warning partially found", <<>>)
    ELSE Result(FALSE, "Government warning not found on label", <<>>)

check_warning(label_text) ==
    The({ WarningIn(text_lower) : text_lower \in {normalize_text(label_text)} })

-----------------------------------------------------------------------------
(* Inputs *)

RECURSIVE Flatten(_)
Flatten(parts) == IF parts = <<>> THEN <<>> ELSE Head(parts) \o Flatten(Tail(parts))

\* Every str that is the concatenation of at most n members of pool.
Texts(pool, n) == {Flatten(t) : t \in UNION {[1..k -> pool] : k \in 0..n}}

MaxLabelParts == 2

\* Stretches of label text as the OCR engine returns them.
LabelParts == { <<"O","l","d"," ","B","a","r","r","e","l"," ","W","h","i","s","k","e","y"," ">>, <<"4","0","%"," ","A","L","C","/","V","O","L"," ","7","5","0"," ","m","L"," ">>,
                <<"G","O","V","E","R","N","M","E","N","T"," ","W","A","R","N","I","N","G",":"," ">>, <<"3","9","%"," ">>, <<"a","b","c","d","e">>, <<"a","b","c","d">>,
                <<" "," "," "," ","","\n">>,
                <<"O","l","d"," ","B","a","r","r","e","l"," ","W","h","i","s","k","e","y"," ","4","0","%"," ","A","L","C","/","V","O","L"," ","7","5","0"," ","m","L"," ","G","O","V","E","R","N","M","E","N","T"," ","W","A","R","N","I","N","G",":"," ","p","r","e","g","n","a","n","t"," ","d","r","i","v","i","n","g">> }

LabelTexts == Texts(LabelParts, MaxLabelParts)

Images == {"missing", "unnamed", "undecodable", "ocr_error", "ok"}

\* str(e) of what Image.open and pytesseract raise
Exceptions == { <<"c","a","n","n","o","t"," ","i","d","e","n","t","i","f","y"," ","i","m","a","g","e"," ","f","i","l","e">>, <<"t","e","s","s","e","r","a","c","t"," ","i","s"," ","n","o","t"," ","i","n","s","t","a","l","l","e","d">> }

FormKeys == {"brandName", "productClass", "alcoholContent", "netContents"}

FormValues(k) ==
    CASE k = "brandName"      -> { <<"O","l","d"," ","B","a","r","r","e","l">>, <<"O","l","d"," ","B","a","r","r","e","l"," ","R","É","s","e","r","v","e">> }
      [] k = "productClass"   -> { <<"W","h","i","s","k","e","y">> }
      [] k = "alcoholContent" -> { <<"4","0">>, <<"a","b","c">> }
      [] k = "netContents"    -> { <<>>, <<"7","5","0"," ","m","l">>, <<"1"," ","l">> }

\* request.form.to_dict(): any subset of the fields may be posted.
Forms ==
    UNION {{f \in [keys -> UNION {FormValues(k) : k \in keys}] :
               \A k \in keys : f[k] \in FormValues(k)} : keys \in SUBSET FormKeys}


\* normalize_text: every str over a small alphabet, and None.
MaxNormLength == 5

NormChars == { <<"É">>, <<"b">>, <<" ">>, <<"\n">>, <<"">> }

NormInputs == Texts(NormChars, MaxNormLength) \cup {None}

\* find_percentage
MaxPercentTokens == 5

PercentTokens == { <<"1">>, <<"4">>, <<"5">>, <<"0">>, <<".">>, <<"%">>, <<" ">> }

PercentInputs == Texts(PercentTokens, MaxPercentTokens)

\* check_alcohol
MaxAlcoholTokens == 2

AlcoholTokens == { <<"4","0","%">>, <<"4","0",".","5","%">>, <<"4","0",".","6"," ","%">>, <<"3","9",".","5","%">>, <<"3","9",".","4","%">>,
                   <<"3","1",".","7","%">>, <<"1","4","5","%">>, <<" ">>, <<"A","B","V"," ">> }

AlcoholLabels == Texts(AlcoholTokens, MaxAlcoholTokens)

AlcoholForms == { <<>>, <<"4","0">>, <<"4","0",".","0">>, <<" ","4","0"," ","%">>, <<"+","4","0",".">>, <<"a","b","c">>,
                  <<"4","o">>, <<" "," ">>, <<"-","4","0">>, <<"3","9">>, <<"3","2",".","2">>, <<"1","e","2">>, <<"4","_","0">>,
                  <<"-","0">>, <<"n","a","n">>, <<"I","n","f">> }

\* check_match
MaxMatchTokens == 3

MatchTokens == { <<"O","l","d">>, <<"b","a","r","r","e","l">>, <<"R","é","s","e","r","v","e">>, <<" ">>, <<" ">>, <<"x">> }

MatchLabels == Texts(MatchTokens, MaxMatchTokens)

MatchForms == { <<>>, <<"O","l","d"," ","B","a","r","r","e","l"," ","R","É","s","e","r","v","e">>, <<"o","l","d"," "," ","b","a","r","r","e","l">>, <<"B","a","r","r","e","l">>,
                <<"b","a","r","r","e","l"," ","x">>, <<"O","l","d"," ","B","a","r","r","e","l"," ","R","É","s","e","r","v","e"," ","R","y","e">>, <<" "," ">>, <<"\n">>,
                <<"R","y","e">> }

\* check_volume
MaxVolumeTokens == 3

VolumeTokens == { <<"7","5","0">>, <<"m","l">>, <<"m","L">>, <<"f","l">>, <<"o","z">>, <<"L">>, <<" ">> }

VolumeLabels == Texts(VolumeTokens, MaxVolumeTokens)

VolumeForms == { <<>>, <<"7","5","0","m","l">>, <<"7","5","0"," ","m","l">>, <<"7","5","0"," ","m","L">>, <<"7","5","0">>, <<"5","0"," ","m","l">>,
                 <<"7","5","0"," ","f","l"," ","o","z">>, <<"1"," ","L">>, <<"7","5","0","M","L">> }

\* check_warning
MaxWarningTokens == 3

WarningTokens == { <<"G","O","V","E","R","N","M","E","N","T">>, <<"W","a","r","n","i","n","g">>, <<"p","r","e","g","n","a","n","t">>, <<"D","R","I","V","I","N","G">>,
                   <<"o","p","e","r","a","t","i","n","g"," ","m","a","c","h","i","n","e","r","y">>, <<"h","e","a","l","t","h"," ","p","r","o","b","l","e","m","s">>, <<" ">>, <<"\n">>,
                   <<";"," ">> }

WarningLabels == Texts(WarningTokens, MaxWarningTokens)

-----------------------------------------------------------------------------
(* verify_label *)

\* 10 in `len(extracted_text.strip()) < 10`
MinTextLength == 10

\* 200 in `extracted_text[:200]`
PreviewLength == 200

\* Variant that measures the raw text.
Unreadable_nostrip(text) == ~Truthy(text) \/ Len(text) < MinTextLength

\* `not extracted_text or len(extracted_text.strip()) < 10`
Unreadable(text) == ~Truthy(text) \/ Len(Strip(text)) < MinTextLength

\* extracted_text[:200] + '...' if len(extracted_text) > 200 else extracted_text
Preview(text) ==
    IF Len(text) > PreviewLength
    THEN SubSeq(text, 1, PreviewLength) \o <<".",".",".">>
    ELSE text

\* jsonify(body), status
Respond(body, status) == [body |-> body, status |-> status]

ErrorBody(msg) == [error |-> msg]

\* {'error': msg, 'details': str(e)}
ErrorDetails(msg, details) == [error |-> msg, details |-> details]

\* Variant of the append that leaves overall_match alone.
AddCheck_keepoverall(res, field, r) ==
    [res EXCEPT !.checks = Append(@, [field |-> field, matched |-> r.matched,
                                      message |-> r.message])]

\* results['checks'].append({...}); if not matched: results['overall_match'] = False
AddCheck(res, field, r) ==
    [res EXCEPT !.checks = Append(@, [field |-> field, matched |-> r.matched,
                                      message |-> r.message]),
                !.overall_match = IF r.matched THEN @ ELSE FALSE]

\* lines 121-122: 'image' not in request.files
NoImage ==
    /\ pc = "start"
    /\ image = "missing"
    /\ response' = Respond(ErrorBody("No image file provided"), 400)
    /\ pc' = "done"
    /\ UNCHANGED <<image, form_data, ocr_result, exception, extracted_text, results, ret>>

\* lines 124-126: image_file.filename == ''
NoFilename ==
    /\ pc = "start"
    /\ image = "unnamed"
    /\ response' = Respond(ErrorBody("No image file selected"), 400)
    /\ pc' = "done"
    /\ UNCHANGED <<image, form_data, ocr_result, exception, extracted_text, results, ret>>

\* line 129: Image.open raises on bytes that are no image; the outer handler
\* (lines 178-180) turns it into the generic 500.
BadImage ==
    /\ pc = "start"
    /\ image = "undecodable"
    /\ response' = Respond(ErrorDetails("An error occurred", exception), 500)
    /\ pc' = "done"
    /\ UNCHANGED <<image, form_data, ocr_result, exception, extracted_text, results, ret>>

\* lines 130-133: pytesseract raises
OcrFails ==
    /\ pc = "start"
    /\ image = "ocr_error"
    /\ response' = Respond(ErrorDetails("Failed to process image", exception), 500)
    /\ pc' = "done"
    /\ UNCHANGED <<image, form_data, ocr_result, exception, extracted_text, results, ret>>

\* line 131: pytesseract returns the label's text
Ocr ==
    /\ pc = "start"
    /\ image = "ok"
    /\ extracted_text' = ocr_result
    /\ pc' = "gate"
    /\ UNCHANGED <<image, form_data, ocr_result, exception, results, response, ret>>

\* lines 136-139
QualityGateFails ==
    /\ pc = "gate"
    /\ Unreadable(extracted_text)
    /\ response' = Respond(ErrorBody(
           "Could not read text from image. Please try a clearer image."), 400)
    /\ pc' = "done"
    /\ UNCHANGED <<image, form_data, ocr_result, exception, extracted_text, results, ret>>

\* lines 142-146
BuildResults ==
    /\ pc = "gate"
    /\ ~Unreadable(extracted_text)
    /\ results' = [overall_match |-> TRUE,
                   extracted_text_preview |-> Preview(extracted_text),
                   checks |-> <<>>]
    /\ pc' = "brand"
    /\ UNCHANGED <<image, form_data, ocr_result, exception, extracted_text, response, ret>>

\* lines 149-152
CheckBrand ==
    /\ pc = "brand"
    /\ results' = AddCheck(results, "Brand Name",
           check_match(extracted_text, Get(form_data, "brandName", <<>>), "Brand Name"))
    /\ pc' = "class"
    /\ UNCHANGED <<image, form_data, ocr_result, exception, extracted_text, response, ret>>

\* lines 154-157
CheckClass ==
    /\ pc = "class"
    /\ results' = AddCheck(results, "Product Class/Type",
           check_match(extracted_text, Get(form_data, "productClass", <<>>),
                       "Product Class/Type"))
    /\ pc' = "alcohol"
    /\ UNCHANGED <<image, form_data, ocr_result, exception, extracted_text, response, ret>>

\* Variant of the step in which a float() failure escapes to the outer handler.
CheckAlcohol_raises ==
    /\ pc = "alcohol"
    /\ LET r == check_alcohol(extracted_text, Get(form_data, "alcoholContent", <<>>))
       IN  IF r.message.fmt = "Invalid alcohol content: {}"
           THEN /\ response' = Respond(ErrorDetails("An error occurred",
                                   <<"c","o","u","l","d"," ","n","o","t"," ","c","o","n","v","e","r","t"," ","s","t","r","i","n","g"," ","t","o"," ","f","l","o","a","t">>), 500)
                /\ pc' = "done"
                /\ UNCHANGED results
           ELSE /\ results' = AddCheck(results, "Alcohol Content", r)
                /\ pc' = "net"
                /\ UNCHANGED response
    /\ UNCHANGED <<image, form_data, ocr_result, exception, extracted_text, ret>>

\* lines 159-162
CheckAlcohol ==
    /\ pc = "alcohol"
    /\ results' = AddCheck(results, "Alcohol Content",
           check_alcohol(extracted_text, Get(form_data, "alcoholContent", <<>>)))
    /\ pc' = "net"
    /\ UNCHANGED <<image, form_data, ocr_result, exception, extracted_text, response, ret>>

\* lines 165-169: net contents provided
CheckNetContents ==
    /\ pc = "net"
    /\ Truthy(Get(form_data, "netContents", None))
    /\ results' = AddCheck(results, "Net Contents",
           check_volume(extracted_text, Get(form_data, "netContents", <<>>)))
    /\ pc' = "warning"
    /\ UNCHANGED <<image, form_data, ocr_result, exception, extracted_text, response, ret>>

\* line 165: net contents absent or empty, the check is skipped
SkipNetContents ==
    /\ pc = "net"
    /\ ~Truthy(Get(form_data, "netContents", None))
    /\ pc' = "warning"
    /\ UNCHANGED <<image, form_data, ocr_result, exception, extracted_text, results, response, ret>>

\* lines 171-174
CheckWarning ==
    /\ pc = "warning"
    /\ results' = AddCheck(results, "Government Warning", check_warning(extracted_text))
    /\ pc' = "respond"
    /\ UNCHANGED <<image, form_data, ocr_result, exception, extracted_text, response, ret>>

\* line 176
ReturnResults ==
    /\ pc = "respond"
    /\ response' = Respond(results, 200)
    /\ pc' = "done"
    /\ UNCHANGED <<image, form_data, ocr_result, exception, extracted_text, results, ret>>

Init ==
    /\ pc = "start"
    /\ image \in Images
    /\ form_data \in Forms
    /\ ocr_result \in (IF image = "ok" THEN LabelTexts ELSE {None})
    /\ exception \in (IF image \in {"undecodable", "ocr_error"} THEN Exceptions ELSE {None})
    /\ extracted_text = None
    /\ results = None
    /\ response = None
    /\ ret = None

Next ==
    \/ NoImage
    \/ NoFilename
    \/ BadImage
    \/ OcrFails
    \/ Ocr
    \/ QualityGateFails
    \/ BuildResults
    \/ CheckBrand
    \/ CheckClass
    \/ CheckAlcohol
    \/ CheckNetContents
    \/ SkipNetContents
    \/ CheckWarning
    \/ ReturnResults

Spec == Init /\ [][Next]_vars

-----------------------------------------------------------------------------
(* The functions called on their own: pc goes from "call" to "return". *)

CallInit(texts, key, values) ==
    /\ pc = "call"
    /\ image = "ok"
    /\ ocr_result = None
    /\ exception = None
    /\ extracted_text \in texts
    /\ form_data \in {[k \in {key} |-> v] : v \in values} \cup {<<>>}
    /\ results = None
    /\ response = None
    /\ ret = None

Return(value) ==
    /\ pc = "call"
    /\ ret' = value
    /\ pc' = "return"
    /\ UNCHANGED <<image, form_data, ocr_result, exception, extracted_text, results, response>>

Call_normalize_text == Return(normalize_text(extracted_text))

InitNormalize == CallInit(NormInputs, "none", {})

SpecNormalize == InitNormalize /\ [][Call_normalize_text]_vars

Call_find_percentage == Return(find_percentage(extracted_text))

InitPercentage == CallInit(PercentInputs, "none", {})

SpecPercentage == InitPercentage /\ [][Call_find_percentage]_vars

Call_check_alcohol ==
    Return(check_alcohol(extracted_text, Get(form_data, "alcoholContent", <<>>)))

InitAlcohol == CallInit(AlcoholLabels, "alcoholContent", AlcoholForms)

SpecAlcohol == InitAlcohol /\ [][Call_check_alcohol]_vars

Call_check_match ==
    Return(check_match(extracted_text, Get(form_data, "brandName", <<>>), "Brand Name"))

InitMatch == CallInit(MatchLabels, "brandName", MatchForms)

SpecMatch == InitMatch /\ [][Call_check_match]_vars

Call_check_volume ==
    Return(check_volume(extracted_text, Get(form_data, "netContents", <<>>)))

InitVolume == CallInit(VolumeLabels, "netContents", VolumeForms)

SpecVolume == InitVolume /\ [][Call_check_volume]_vars

Call_check_warning == Return(check_warning(extracted_text))

InitWarning == CallInit(WarningLabels, "none", {})

SpecWarning == InitWarning /\ [][Call_check_warning]_vars

-----------------------------------------------------------------------------
(* Properties *)

Abs(x) == IF x < 0 THEN -x ELSE x

Checks == response.body.checks

Succeeded == pc = "done" /\ response.status = 200

NetContentsGiven == Truthy(Get(form_data, "netContents", None))

\* C1: in every successful response overall_match is true exactly when every
\* check in the returned list matched, and when netContents is absent or empty
\* the list holds no Net Contents result.
C1_OverallMatchIsConjunction ==
    Succeeded =>
        /\ response.body.overall_match
             <=> \A k \in 1..Len(Checks) : Checks[k].matched
        /\ ~NetContentsGiven =>
             \A k \in 1..Len(Checks) : Checks[k].field # "Net Contents"

\* A request without netContents whose four checks all pass.
C1_Witness ==
    /\ Succeeded
    /\ ~NetContentsGiven
    /\ Len(Checks) = 4
    /\ response.body.overall_match

\* C2: a text whose stripped length is below 10 never reaches a field check
\* and ends in status 400 with an error body only; a text of stripped length
\* 10 or more goes on to the field checks and is answered with them.
C2_QualityGate ==
    extracted_text # None =>
        IF Len(Strip(extracted_text)) < 10
        THEN /\ pc \in {"gate", "done"}
             /\ pc = "done" =>
                  (response.status = 400 /\ DOMAIN response.body = {"error"})
        ELSE pc = "done" =>
                  /\ response.status = 200
                  /\ Len(Checks) >= 4
                  /\ "overall_match" \in DOMAIN response.body

\* A text of 10 or more raw characters that strips to fewer than 10 is refused.
C2_Witness ==
    /\ pc = "done"
    /\ extracted_text # None
    /\ Len(extracted_text) >= 10
    /\ Len(Strip(extracted_text)) < 10
    /\ response.status = 400

ExpectedFields ==
    IF NetContentsGiven
    THEN <<"Brand Name", "Product Class/Type", "Alcohol Content", "Net Contents",
           "Government Warning">>
    ELSE <<"Brand Name", "Product Class/Type", "Alcohol Content",
           "Government Warning">>

AlcoholUnparsable ==
    /\ Truthy(Get(form_data, "alcoholContent", <<>>))
    /\ ~ParseFloat(StripPercentAndSpace(Get(form_data, "alcoholContent", <<>>))).ok

\* C3: past the gates the run always ends in a 200 whose checks are, in order,
\* Brand Name, Product Class/Type, Alcohol Content, Net Contents (exactly when
\* netContents was given) and Government Warning, whatever the earlier checks
\* found; an unparsable alcoholContent is the failed check
\* "Invalid alcohol content: <original value>".
C3_FixedOrderNoAbort ==
    (pc = "done" /\ extracted_text # None /\ ~Unreadable(extracted_text)) =>
        /\ response.status = 200
        /\ [k \in 1..Len(Checks) |-> Checks[k].field] = ExpectedFields
        /\ AlcoholUnparsable =>
             /\ ~Checks[3].matched
             /\ Checks[3].message.fmt = "Invalid alcohol content: {}"
             /\ Checks[3].message.args = <<form_data["alcoholContent"]>>

\* A run with a failed brand check and an unparsable alcoholContent that still
\* returns all five checks.
C3_Witness ==
    /\ Succeeded
    /\ AlcoholUnparsable
    /\ ~Checks[1].matched
    /\ Len(Checks) = 5
    /\ Checks[5].field = "Government Warning"

RECURSIVE Pow10(_)
Pow10(k) == IF k = 0 THEN 1 ELSE 10 * Pow10(k - 1)

RECURSIVE DigitsValue(_, _)
DigitsValue(s, acc) ==
    IF s = <<>> THEN acc ELSE DigitsValue(Tail(s), 10 * acc + DigitVal(Head(s)))

Unsigned(s) == IF s # <<>> /\ s[1] \in {"+", "-"} THEN Tail(s) ELSE s

\* s reads [sign] digits [. digits] with at least one digit
IsPlainDecimal(s) ==
    /\ \A i \in 1..Len(Unsigned(s)) : IsDigit(Unsigned(s)[i]) \/ Unsigned(s)[i] = "."
    /\ Cardinality({i \in 1..Len(Unsigned(s)) : Unsigned(s)[i] = "."}) <= 1
    /\ \E i \in 1..Len(Unsigned(s)) : IsDigit(Unsigned(s)[i])

\* The number a plain decimal denotes, as the fraction num / den
DecimalOf(s) ==
    LET u    == Unsigned(s)
        dot  == IF \E i \in 1..Len(u) : u[i] = "."
                THEN CHOOSE i \in 1..Len(u) : u[i] = "."
                ELSE Len(u) + 1
        mag  == DigitsValue(SelectSeq(u, IsDigit), 0)
    IN  [num |-> IF s[1] = "-" THEN -mag ELSE mag,
         den |-> Pow10(Len(u) - Min({dot, Len(u)}))]

\* |p - e| <= 0.5 on the decimals as written
WithinHalf(p, e) == 2 * Abs(p.num * e.den - e.num * p.den) <= p.den * e.den

\* 0 <= v <= 100 on the decimal as written
InZeroToHundred(v) == 0 <= v.num /\ v.num <= 100 * v.den

PercentMatches == FindAll(Lower(extracted_text), "percent", 1)

\* The "<number>%" occurrences of the label whose number lies in [0, 100]
PercentsWritten ==
    SelectSeq(PercentMatches, LAMBDA m : InZeroToHundred(DecimalOf(m.number)))

AlcoholForm == Get(form_data, "alcoholContent", <<>>)

AlcoholWritten == StripPercentAndSpace(AlcoholForm)

\* C4: for an expected value that is a decimal number and a label with at
\* least one percentage, check_alcohol matches exactly when some percentage
\* written on the label, at any position, is within 0.5 of the expected value
\* as written (40.0 matches 40.5, not 40.6); a failure reports the first
\* extracted percentage and the expected value.
C4_AlcoholTolerance ==
    pc = "return" =>
        /\ (Truthy(AlcoholForm) /\ IsPlainDecimal(AlcoholWritten) /\ PercentsWritten # <<>>) =>
             /\ ret.matched
                  <=> \E k \in 1..Len(PercentsWritten) :
                         WithinHalf(DecimalOf(PercentsWritten[k].number),
                                    DecimalOf(AlcoholWritten))
             /\ ~ret.matched =>
                  /\ ret.message.fmt =
                       "Alcohol content mismatch: found {}%, expected {}%"
                  /\ ret.message.args = <<ParseFloat(PercentsWritten[1].number).val,
                                          ParseFloat(AlcoholWritten).val>>
        /\ (AlcoholForm = <<"4","0",".","0">> /\ extracted_text = <<"4","0",".","5","%">>) => ret.matched
        /\ (AlcoholForm = <<"4","0",".","0">> /\ extracted_text = <<"4","0",".","6"," ","%">>) => ~ret.matched

MatchForm == Get(form_data, "brandName", <<>>)

MatchWords == Split(normalize_text(MatchForm))

MatchWordsOnLabel ==
    Cardinality({k \in 1..Len(MatchWords) :
                    Contains(normalize_text(extracted_text), MatchWords[k])})

\* C5: for a non-empty expected value check_match answers "found on label"
\* when the normalized value is a substring of the normalized label; otherwise,
\* with more than one token, "partially matched" exactly when the tokens found
\* number at least 0.7 of the token count; otherwise "not found on label".
\* Two of three tokens fail, and a single token never partially matches.
C5_TextFieldMatch ==
    (pc = "return" /\ Truthy(MatchForm)) =>
        /\ ret.message.args = <<"Brand Name">>
        /\ IF Contains(normalize_text(extracted_text), normalize_text(MatchForm))
           THEN ret.matched /\ ret.message.fmt = "{} found on label"
           ELSE IF Len(MatchWords) > 1 /\ 10 * MatchWordsOnLabel >= 7 * Len(MatchWords)
           THEN ret.matched /\ ret.message.fmt = "{} partially matched"
           ELSE ~ret.matched /\ ret.message.fmt = "{} not found on label"
        /\ (Len(MatchWords) = 3 /\ MatchWordsOnLabel = 2) => ~ret.matched
        /\ Len(MatchWords) = 1 => ret.message.fmt # "{} partially matched"

\* Three tokens of which only two are on the label: the check fails.
C5_Witness ==
    /\ pc = "return"
    /\ Len(MatchWords) = 3
    /\ MatchWordsOnLabel = 2
    /\ ret.message.fmt = "{} not found on label"

\* C10: check_match reports a match only if the expected value has a token
\* and at least one of its tokens occurs in the normalized label.
C10_MatchNeedsEvidence ==
    (pc = "return" /\ ret.matched) =>
        /\ Len(MatchWords) >= 1
        /\ MatchWordsOnLabel >= 1

VolumeForm == Get(form_data, "netContents", <<>>)

NoSpaces(s) == SelectSeq(s, LAMBDA c : ~IsSpace(c))

\* C6: with an expected value and volume candidates on the label, check_volume
\* succeeds when one normalized string contains the other, which lets "750ml"
\* match a label volume "750 ml" of the same magnitude and unit; when nothing
\* matches it fails reporting the first candidate.
C6_VolumeFormatting ==
    (pc = "return" /\ Truthy(VolumeForm) /\ find_volume(extracted_text) # <<>>) =>
        LET vols == find_volume(extracted_text)
            f    == normalize_text(VolumeForm)
        IN  /\ (\E k \in 1..Len(vols) :
                   \/ Contains(normalize_text(vols[k]), f)
                   \/ Contains(f, normalize_text(vols[k]))) => ret.matched
            /\ (\E k \in 1..Len(vols) :
                   NoSpaces(normalize_text(vols[k])) = NoSpaces(f)) => ret.matched
            /\ ~ret.matched =>
                 /\ ret.message.fmt = "Net contents mismatch: found {}, expected {}"
                 /\ ret.message.args = <<vols[1], VolumeForm>>

WarningText == normalize_text(extracted_text)

WarningKeyPhrasesPresent ==
    Cardinality({p \in {<<"p","r","e","g","n","a","n","t">>, <<"d","r","i","v","i","n","g">>, <<"o","p","e","r","a","t","i","n","g"," ","m","a","c","h","i","n","e","r","y">>,
                        <<"h","e","a","l","t","h"," ","p","r","o","b","l","e","m","s">>} : Contains(WarningText, p)})

\* C7: check_warning matches exactly when the normalized label holds
\* "government warning" or at least two of the four key phrases; one key
\* phrase without the literal phrase is "Government warning not found on label".
C7_WarningDetection ==
    pc = "return" =>
        /\ ret.matched <=> \/ Contains(WarningText, <<"g","o","v","e","r","n","m","e","n","t"," ","w","a","r","n","i","n","g">>)
                           \/ WarningKeyPhrasesPresent >= 2
        /\ (WarningKeyPhrasesPresent = 1
              /\ ~Contains(WarningText, <<"g","o","v","e","r","n","m","e","n","t"," ","w","a","r","n","i","n","g">>)) =>
             ret = Result(FALSE, "Government warning not found on label", <<>>)

\* Exactly one key phrase and no literal phrase: the check fails.
C7_Witness ==
    /\ pc = "return"
    /\ WarningKeyPhrasesPresent = 1
    /\ ~Contains(WarningText, <<"g","o","v","e","r","n","m","e","n","t"," ","w","a","r","n","i","n","g">>)
    /\ ~ret.matched

\* 0 <= v <= 100 on floats
FloatInZeroToHundred(v) == FloatLe(IntFloat(0), v) /\ FloatLe(v, IntFloat(100))

\* C8: find_percentage returns only values in [0, 100]: "145%" yields the
\* empty sequence and "45%" yields [45.0]; the values kept are those of the
\* "<number>%" occurrences whose number lies in [0, 100], in text order.
C8_PercentRange ==
    pc = "return" =>
        /\ \A k \in 1..Len(ret) : FloatInZeroToHundred(ret[k])
        /\ extracted_text = <<"1","4","5","%">> => ret = <<>>
        /\ extracted_text = <<"4","5","%">> => ret = <<IntFloat(45)>>
        /\ ret = [k \in 1..Len(PercentsWritten) |->
                     ParseFloat(PercentsWritten[k].number).val]
        /\ \A k \in 1..(Len(PercentMatches) - 1) :
               PercentMatches[k].end <= PercentMatches[k + 1].start

\* "145%" is read and discarded.
C8_Witness ==
    /\ pc = "return"
    /\ extracted_text = <<"1","4","5","%">>
    /\ Len(PercentMatches) = 1
    /\ ret = <<>>

\* C9: normalize_text is total and idempotent; its result is lowercase, has no
\* leading or trailing whitespace and no two adjacent whitespace characters,
\* and is empty for an empty or absent input.
C9_NormalizeIdempotent ==
    pc = "return" =>
        /\ normalize_text(ret) = ret
        /\ \A i \in 1..Len(ret) : LowerChar(ret[i]) = ret[i]
        /\ ret # <<>> => (~IsSpace(ret[1]) /\ ~IsSpace(ret[Len(ret)]))
        /\ \A i \in 1..(Len(ret) - 1) : ~(IsSpace(ret[i]) /\ IsSpace(ret[i + 1]))
        /\ ~Truthy(extracted_text) => ret = <<>>

\* An input with an uppercase letter, padding and a whitespace run.
C9_Witness ==
    /\ pc = "return"
    /\ extracted_text = <<" ","É","\n","","b">>
    /\ ret = <<"é"," ","b">>

=============================================================================
